---- MODULE Spec2Model ----
(***************************************************************************)
(* Tremor / dyskinesia detector (B-L475E-IOT01A, LSM6DSL): the timer ISR,  *)
(* the calibration loop, the acquisition loop, the per-window analysis and *)
(* the LED feedback of src/src/main.cpp.                                   *)
(*                                                                         *)
(* Numbers.  The program computes in float; the model computes the same    *)
(* expressions exactly, over integers in fixed units:                      *)
(*   - a scaled accelerometer sample raw * 0.000061f is held in units of   *)
(*     1e-6 g / Q, a scaled gyroscope sample raw * 0.00875f in units of    *)
(*     1.25e-3 dps / Q, with Q = CALIBRATION_WINDOWS * N, so that the      *)
(*     division of the baseline sums by Q is exact;                        *)
(*   - a spectral magnitude is held in units of 1e-3 g (accelerometer      *)
(*     channels) and of 0.1 dps (gyroscope channels), a level in units of  *)
(*     1e-5 (LEVEL_ONE = 1.0f);                                            *)
(*   - rms = sqrtf(s / (i7 + 2)) is held as s, the sum of squares, and     *)
(*     every comparison with rms is made on the squares.                   *)
(* The FFT (arm_rfft_fast_f32, arm_cmplx_mag_f32) is the CMSIS-DSP         *)
(* library: its output, the magnitude spectrum, is an input of the model.  *)
(***************************************************************************)
EXTENDS Integers, Sequences, FiniteSets, TLC

(***************************************************************************)
(* Bounds of the model.                                                    *)
(***************************************************************************)
\* samples per window explored (the source has N = Fs * WIN_S = 104)
MaxN == 2
\* calibration windows explored (the source has CALIBRATION_WINDOWS = 5)
MaxCalWindows == 2
\* the counters of ISR firings, consumed ticks and read attempts saturate here
MaxTicks == 3
\* failed sensor reads explored in one run
MaxFails == 2
\* windows analysed in one run of SpecWin, and in one run of Spec
MaxWindows == 3
MaxSampledWindows == 2
\* largest stability-window count explored (the source has STABLE_WINDOWS = 1)
MaxStableWindows == 2
\* windows analysed in SpecAna
MaxAnaWindows == 1

(***************************************************************************)
(* Configuration of src/src/main.cpp.                                      *)
(***************************************************************************)
Fs == 104
WIN_S == 1
FFTN == 256
N == MaxN
CALIBRATION_WINDOWS == MaxCalWindows
\* thresholds 0.10f (in units of 1e-3 g) and 10.0f (in units of 0.1 dps)
ACC_T_TH == 100
ACC_D_TH == 100
GYR_T_TH == 100
GYR_D_TH == 100
\* PEAK_TO_RMS = 1.5f and the RMS floor multiplier 0.5f, in tenths
PEAK_TO_RMS_X10 == 15
RMS_FLOOR_X10 == 5
\* the level of one magnitude unit: 1e-3 / 0.5f and 0.1 / 100.f, in level units
ACC_LEVEL == 200
GYR_LEVEL == 100
\* 0.000061f in units of 1e-6, 0.00875f in units of 1.25e-3
ACC_LSB == 61
GYR_LSB == 7
\* 1.0f in level units (1e-5)
LEVEL_ONE == 100000
\* period_ms arguments
PERIOD_INIT_MS == 1
PERIOD_DYSK_MS == 200
PERIOD_TREM_MS == 500

\* for (int addr : {0x6A, 0x6B}); r8(WHO_AM_I) == 0x6A
ADDR_LO == 106
ADDR_HI == 107
WHO_LSM6DSL == 106

Q == CALIBRATION_WINDOWS * N
HALF == FFTN \div 2

VARIABLES
    pc,                 \* position of main
    tick_flag,          \* static volatile bool tick_flag
    STABLE_WINDOWS,     \* build-time constant, fixed in Init
    cal_i,              \* i of the calibration for-loop
    idx,                \* idx of the current sampling loop
    baseline_acc, baseline_gyr, is_calibrated,
    ax, ay, az, gx, gy, gz,
    windowCount,
    mag,                \* the six magnitude spectra of the window
    trem, dysk, levelT, levelD,
    stable_tremor, stable_dyskinesia,
    show_tremor, show_dyskinesia,
    led_tremor, led_dyskinesia, led_tremor_period, led_dyskinesia_period,
    led_status, led_power,
    LSM_ADDR,           \* int LSM_ADDR, the 8-bit I2C address in use
    boot_log,           \* the diagnostic lines written during start-up
    led, freq, duty, cnt,   \* single-LED variant: PwmOut led and the blink locals
    \* history variables (not in the program)
    raised,             \* ISR firings
    consumed,           \* clears of tick_flag by main
    reads,              \* loop iterations that called rN
    fails,              \* failed rN calls
    cal_n_acc, cal_n_gyr,   \* readings summed into baseline_acc, baseline_gyr
    pair_acc, pair_gyr,     \* sums over the ticks on which both reads succeeded
    cal_seen,           \* per channel, the 16-bit values read during calibration
    wlog,               \* the stores of the current window: idx and the six values
    win_seen,           \* per channel, the 16-bit values read in the current window
    win_fails,          \* failed rN calls in the current window
    hist,               \* the winner of every decided window
    who                 \* the answers of r8(WHO_AM_I) during start-up

ctl == <<pc, tick_flag, STABLE_WINDOWS, cal_i, idx, windowCount>>
cal == <<baseline_acc, baseline_gyr, is_calibrated>>
bufs == <<ax, ay, az, gx, gy, gz>>
ana == <<mag, trem, dysk, levelT, levelD>>
dec == <<stable_tremor, stable_dyskinesia, show_tremor, show_dyskinesia>>
leds == <<led_tremor, led_dyskinesia, led_tremor_period, led_dyskinesia_period,
          led_status, led_power>>
ticks == <<raised, consumed, reads, fails>>
calhist == <<cal_n_acc, cal_n_gyr, pair_acc, pair_gyr, cal_seen>>
winhist == <<wlog, win_seen, win_fails>>
boot == <<LSM_ADDR, boot_log, who>>
one == <<led, freq, duty, cnt>>
vars == <<ctl, cal, bufs, ana, dec, leds, ticks, calhist, winhist, hist, boot, one>>

(***************************************************************************)
(* Sensor frames: rN fills data[0..5] with three little-endian 16-bit      *)
(* values.  A frame is the sequence of the six bytes.                      *)
(***************************************************************************)
Lo(v) == (v % 65536) % 256
Hi(v) == (v % 65536) \div 256
Frame(x, y, z) == <<Lo(x), Hi(x), Lo(y), Hi(y), Lo(z), Hi(z)>>

\* what the sensor returns: at rest during calibration; at rest or moving
\* afterwards in Spec, moving afterwards in SpecWin
RestFrames == { <<Frame(3, -2, 32767), Frame(0, -1, 7)>> }
MoveFrames == { <<Frame(-40, 90, -32768), Frame(-1, 300, -7)>> }
Frames == RestFrames \cup MoveFrames

\* data[2k] | (data[2k + 1] << 8), an int: the bytes are unsigned
Word(data, k) == data[2 * k + 1] + data[2 * k + 2] * 256
\* the conversion of that int to int16_t
Int16(u) == IF u >= 32768 THEN u - 65536 ELSE u
\* the 16-bit signed value the sensor sent
Sent(data, k) == Int16(Word(data, k))

\* calibration: (data[..] | (data[..] << 8)) * 0.000061f, no int16_t in between
CalAcc(data, k) == Word(data, k) * ACC_LSB * Q
CalGyr(data, k) == Word(data, k) * GYR_LSB * Q
\* acquisition: int16_t axr = data[..] | (data[..] << 8); axr * 0.000061f
SampleAcc(data, k) == Int16(Word(data, k)) * ACC_LSB * Q
SampleGyr(data, k) == Int16(Word(data, k)) * GYR_LSB * Q

Zero3 == [k \in 0..2 |-> 0]
ZeroBuf == [k \in 0..(FFTN - 1) |-> 0]
ZeroMag == [k \in 0..(HALF - 1) |-> 0]
NoneSeen == [c \in 1..6 |-> {}]
Sat(n) == IF n < MaxTicks THEN n + 1 ELSE n

\* the state when the ticker is attached, for a build with STABLE_WINDOWS = sw
InitWith(sw) ==
    /\ pc = "calibrate"
    /\ tick_flag = FALSE
    /\ STABLE_WINDOWS = sw
    /\ cal_i = 0
    /\ idx = 0
    /\ baseline_acc = Zero3
    /\ baseline_gyr = Zero3
    /\ is_calibrated = FALSE
    /\ ax = ZeroBuf /\ ay = ZeroBuf /\ az = ZeroBuf
    /\ gx = ZeroBuf /\ gy = ZeroBuf /\ gz = ZeroBuf
    /\ windowCount = 0
    /\ mag = [c \in 1..6 |-> ZeroMag]
    /\ trem = FALSE /\ dysk = FALSE /\ levelT = 0 /\ levelD = 0
    /\ stable_tremor = 0 /\ stable_dyskinesia = 0
    /\ show_tremor = FALSE /\ show_dyskinesia = FALSE
    /\ led_tremor = 0 /\ led_dyskinesia = 0
    /\ led_tremor_period = PERIOD_INIT_MS /\ led_dyskinesia_period = PERIOD_INIT_MS
    /\ led_status = 0 /\ led_power = 0
    /\ raised = 0 /\ consumed = 0 /\ reads = 0 /\ fails = 0
    /\ cal_n_acc = 0 /\ cal_n_gyr = 0
    /\ pair_acc = Zero3 /\ pair_gyr = Zero3
    /\ cal_seen = NoneSeen
    /\ wlog = <<>>
    /\ win_seen = NoneSeen
    /\ win_fails = 0
    /\ hist = <<>>
    \* the sensor answered WHO_AM_I at the first address
    /\ LSM_ADDR = ADDR_LO * 2
    /\ boot_log = <<"Boot", "Found LSM6DSL", "CTRL", "Freq bins">>
    /\ who = <<WHO_LSM6DSL>>
    /\ led = 0 /\ freq = 0 /\ duty = 0 /\ cnt = 0

(***************************************************************************)
(* Start-up: boot message, detection of the sensor address, configuration, *)
(* LED and FFT set-up.  SpecBoot starts here; the other specifications     *)
(* start at the calibration, the sensor found at the first address.        *)
(***************************************************************************)
StartUp == {"boot", "detect", "configure", "setup"}

\* a PwmOut period before period_ms() is called
PERIOD_UNSET == 0

InitBoot ==
    /\ pc = "boot"
    /\ tick_flag = FALSE
    /\ STABLE_WINDOWS = 1
    /\ cal_i = 0
    /\ idx = 0
    /\ baseline_acc = Zero3
    /\ baseline_gyr = Zero3
    /\ is_calibrated = FALSE
    /\ ax = ZeroBuf /\ ay = ZeroBuf /\ az = ZeroBuf
    /\ gx = ZeroBuf /\ gy = ZeroBuf /\ gz = ZeroBuf
    /\ windowCount = 0
    /\ mag = [c \in 1..6 |-> ZeroMag]
    /\ trem = FALSE /\ dysk = FALSE /\ levelT = 0 /\ levelD = 0
    /\ stable_tremor = 0 /\ stable_dyskinesia = 0
    /\ show_tremor = FALSE /\ show_dyskinesia = FALSE
    /\ led_tremor = 0 /\ led_dyskinesia = 0
    /\ led_tremor_period = PERIOD_UNSET /\ led_dyskinesia_period = PERIOD_UNSET
    /\ led_status = 0 /\ led_power = 0
    /\ raised = 0 /\ consumed = 0 /\ reads = 0 /\ fails = 0
    /\ cal_n_acc = 0 /\ cal_n_gyr = 0
    /\ pair_acc = Zero3 /\ pair_gyr = Zero3
    /\ cal_seen = NoneSeen
    /\ wlog = <<>>
    /\ win_seen = NoneSeen
    /\ win_fails = 0
    /\ hist = <<>>
    /\ LSM_ADDR = 0
    /\ boot_log = <<>>
    /\ who = <<>>
    /\ led = 0 /\ freq = 0 /\ duty = 0 /\ cnt = 0

\* pc.write("Boot\r\n", 6); i2c.frequency(400000);
BootMsg ==
    /\ pc = "boot"
    /\ boot_log' = Append(boot_log, "Boot")
    /\ pc' = "detect"
    /\ UNCHANGED <<tick_flag, STABLE_WINDOWS, cal_i, idx, windowCount, cal, bufs,
                   ana, dec, leds, ticks, calhist, winhist, hist, LSM_ADDR, who,
                   one>>

\* what r8(WHO_AM_I) can return: the identity of the LSM6DSL, that of another
\* device, or whatever v holds when the read is not acknowledged
WhoAnswers == {WHO_LSM6DSL, 105, 255}

\* the address tried by the next iteration of for (int addr : {0x6A, 0x6B})
NextAddr == IF Len(who) = 0 THEN ADDR_LO ELSE ADDR_HI

\* LSM_ADDR = addr << 1; if (r8(WHO_AM_I) == 0x6A) { logf("Found ..."); break; }
Probe(v) ==
    /\ pc = "detect"
    /\ LSM_ADDR' = NextAddr * 2
    /\ who' = Append(who, v)
    /\ boot_log' = IF v = WHO_LSM6DSL THEN Append(boot_log, "Found LSM6DSL")
                   ELSE boot_log
    /\ pc' = IF v = WHO_LSM6DSL \/ NextAddr = ADDR_HI THEN "configure" ELSE "detect"
    /\ UNCHANGED <<tick_flag, STABLE_WINDOWS, cal_i, idx, windowCount, cal, bufs,
                   ana, dec, leds, ticks, calhist, winhist, hist, one>>

\* w8(CTRL1_XL, 0x40); w8(CTRL2_G, 0x40); w8(CTRL3_C, 0x44); logf("CTRL1=...")
Configure ==
    /\ pc = "configure"
    /\ boot_log' = Append(boot_log, "CTRL")
    /\ pc' = "setup"
    /\ UNCHANGED <<tick_flag, STABLE_WINDOWS, cal_i, idx, windowCount, cal, bufs,
                   ana, dec, leds, ticks, calhist, winhist, hist, LSM_ADDR, who,
                   one>>

\* LED setup, FFT initialization, logf("Freq bins: ..."), tick.attach
Setup ==
    /\ pc = "setup"
    /\ led_tremor_period' = PERIOD_INIT_MS
    /\ led_dyskinesia_period' = PERIOD_INIT_MS
    /\ led_tremor' = 0 /\ led_dyskinesia' = 0
    /\ led_status' = 0 /\ led_power' = 0
    /\ boot_log' = Append(boot_log, "Freq bins")
    /\ pc' = "calibrate"
    /\ UNCHANGED <<tick_flag, STABLE_WINDOWS, cal_i, idx, windowCount, cal, bufs,
                   ana, dec, ticks, calhist, winhist, hist, LSM_ADDR, who, one>>

(***************************************************************************)
(* The ticker interrupt.                                                   *)
(***************************************************************************)
\* mutant: the handler does not raise the flag
isr_Lost ==
    /\ pc \notin StartUp
    /\ tick_flag' = FALSE
    /\ raised' = Sat(raised)
    /\ UNCHANGED <<pc, STABLE_WINDOWS, cal_i, idx, windowCount, cal, bufs, ana, dec,
                   leds, consumed, reads, fails, calhist, winhist, hist, boot, one>>

isr ==
    \* tick.attach(&isr, 9600us) ends the start-up
    /\ pc \notin StartUp
    /\ tick_flag' = TRUE
    /\ raised' = Sat(raised)
    /\ UNCHANGED <<pc, STABLE_WINDOWS, cal_i, idx, windowCount, cal, bufs, ana,
                   dec, leds, consumed, reads, fails, calhist, winhist, hist, boot, one>>

(***************************************************************************)
(* One iteration of a sampling loop is one action: main reads tick_flag    *)
(* only in the test that opens the iteration, so an interrupt during the   *)
(* iteration leaves the same state as one right after it.  An iteration    *)
(* that finds the flag clear changes nothing (if (!tick_flag) continue;).  *)
(***************************************************************************)
\* mutant: the iteration does not wait for the flag
Due_Always == TRUE

\* if (!tick_flag) continue;  -- the iteration goes on
Due == tick_flag

\* tick_flag = false; and the call of rN that follows
Consume ==
    /\ Due
    /\ tick_flag' = FALSE
    /\ consumed' = Sat(consumed)
    /\ reads' = Sat(reads)

SeeAcc(seen, da) ==
    [c \in 1..6 |-> IF c <= 3 THEN seen[c] \cup {Sent(da, c - 1)} ELSE seen[c]]
SeeGyr(seen, dg) ==
    [c \in 1..6 |-> IF c >= 4 THEN seen[c] \cup {Sent(dg, c - 4)} ELSE seen[c]]

(***************************************************************************)
(* Calibration.                                                            *)
(***************************************************************************)
\* if (rN(OUT_XL_L, data) != 0) continue;
CalAccFail ==
    /\ pc = "calibrate"
    /\ fails < MaxFails
    /\ Consume
    /\ fails' = fails + 1
    /\ UNCHANGED <<pc, STABLE_WINDOWS, cal_i, idx, windowCount, cal, bufs, ana,
                   dec, leds, raised, calhist, winhist, hist, boot, one>>

\* baseline_acc[k] += (data[2k] | (data[2k + 1] << 8)) * 0.000061f;
AddAcc(b, data) == [k \in 0..2 |-> b[k] + CalAcc(data, k)]
\* baseline_gyr[k] += (data[2k] | (data[2k + 1] << 8)) * 0.00875f;
AddGyr(b, data) == [k \in 0..2 |-> b[k] + CalGyr(data, k)]

\* the accelerometer read succeeds and is summed;
\* if (rN(OUT_G_L, data) != 0) continue;
CalGyrFail(da) ==
    /\ pc = "calibrate"
    /\ fails < MaxFails
    /\ Consume
    /\ fails' = fails + 1
    /\ baseline_acc' = AddAcc(baseline_acc, da)
    /\ cal_n_acc' = cal_n_acc + 1
    /\ cal_seen' = SeeAcc(cal_seen, da)
    /\ UNCHANGED <<pc, STABLE_WINDOWS, cal_i, idx, windowCount, baseline_gyr,
                   is_calibrated, bufs, ana, dec, leds, raised, cal_n_gyr,
                   pair_acc, pair_gyr, winhist, hist, boot, one>>

\* both reads succeed: both sums grow, ++idx, and the test of while (idx < N)
CalTick(da, dg) ==
    /\ pc = "calibrate"
    /\ Consume
    /\ baseline_acc' = AddAcc(baseline_acc, da)
    /\ baseline_gyr' = AddGyr(baseline_gyr, dg)
    /\ cal_n_acc' = cal_n_acc + 1
    /\ cal_n_gyr' = cal_n_gyr + 1
    /\ pair_acc' = AddAcc(pair_acc, da)
    /\ pair_gyr' = AddGyr(pair_gyr, dg)
    /\ cal_seen' = SeeGyr(SeeAcc(cal_seen, da), dg)
    /\ idx' = idx + 1
    /\ pc' = IF idx + 1 < N THEN "calibrate" ELSE "cal_sleep"
    /\ UNCHANGED <<STABLE_WINDOWS, cal_i, windowCount, is_calibrated, bufs, ana,
                   dec, leds, raised, fails, winhist, hist, boot, one>>

\* ThisThread::sleep_for(100ms); then i++, the test i < CALIBRATION_WINDOWS
\* and size_t idx = 0 of the next calibration window
CalSleep ==
    /\ pc = "cal_sleep"
    /\ cal_i' = cal_i + 1
    /\ idx' = IF cal_i + 1 < CALIBRATION_WINDOWS THEN 0 ELSE idx
    /\ pc' = IF cal_i + 1 < CALIBRATION_WINDOWS THEN "calibrate" ELSE "cal_div"
    /\ UNCHANGED <<tick_flag, STABLE_WINDOWS, windowCount, cal, bufs, ana, dec,
                   leds, ticks, calhist, winhist, hist, boot, one>>

\* baseline[k] /= (CALIBRATION_WINDOWS * N);
\* mutant: the sums are not divided
Divide_None(b) == b

Divide(b) == [k \in 0..2 |-> b[k] \div Q]

\* the division loop; is_calibrated = true;
CalFinish ==
    /\ pc = "cal_div"
    /\ baseline_acc' = Divide(baseline_acc)
    /\ baseline_gyr' = Divide(baseline_gyr)
    /\ is_calibrated' = TRUE
    /\ pc' = "win_start"
    /\ UNCHANGED <<tick_flag, STABLE_WINDOWS, cal_i, idx, windowCount, bufs, ana,
                   dec, leds, ticks, calhist, winhist, hist, boot, one>>

(***************************************************************************)
(* Normal acquisition.                                                     *)
(***************************************************************************)
\* logf("--- Window %lu ---", ++windowCount); size_t idx = 0;
WindowStart(maxw) ==
    /\ pc = "win_start"
    /\ windowCount < maxw
    /\ windowCount' = windowCount + 1
    /\ idx' = 0
    /\ wlog' = <<>>
    /\ win_seen' = NoneSeen
    /\ win_fails' = 0
    /\ mag' = [c \in 1..6 |-> ZeroMag]
    /\ pc' = "acquire"
    /\ UNCHANGED <<tick_flag, STABLE_WINDOWS, cal_i, cal, bufs, trem, dysk,
                   levelT, levelD, dec, leds, ticks, calhist, hist, boot, one>>

\* mutant: a failed read in acquisition clears the accelerometer baseline
AcqAccFail_Recal ==
    /\ pc = "acquire"
    /\ fails < MaxFails
    /\ Consume
    /\ fails' = fails + 1
    /\ win_fails' = win_fails + 1
    /\ baseline_acc' = Zero3
    /\ UNCHANGED <<pc, STABLE_WINDOWS, cal_i, idx, windowCount, baseline_gyr,
                   is_calibrated, bufs, ana, dec, leds, raised, calhist, wlog,
                   win_seen, hist, boot, one>>

\* if (rN(OUT_XL_L, data) != 0) continue;
AcqAccFail ==
    /\ pc = "acquire"
    /\ fails < MaxFails
    /\ Consume
    /\ fails' = fails + 1
    /\ win_fails' = win_fails + 1
    /\ UNCHANGED <<pc, STABLE_WINDOWS, cal_i, idx, windowCount, cal, bufs, ana,
                   dec, leds, raised, calhist, wlog, win_seen, hist, boot, one>>

\* mutant: the accelerometer samples are stored before the gyroscope read
AcqGyrFail_StoresAcc(da) ==
    /\ pc = "acquire"
    /\ fails < MaxFails
    /\ Consume
    /\ fails' = fails + 1
    /\ win_fails' = win_fails + 1
    /\ ax' = [ax EXCEPT ![idx] = SampleAcc(da, 0) - baseline_acc[0]]
    /\ ay' = [ay EXCEPT ![idx] = SampleAcc(da, 1) - baseline_acc[1]]
    /\ az' = [az EXCEPT ![idx] = SampleAcc(da, 2) - baseline_acc[2]]
    /\ UNCHANGED <<pc, STABLE_WINDOWS, cal_i, idx, windowCount, cal, gx, gy, gz,
                   ana, dec, leds, raised, calhist, wlog, win_seen, hist, boot, one>>

\* the accelerometer read succeeds into the locals axr, ayr, azr;
\* if (rN(OUT_G_L, data) != 0) continue;
AcqGyrFail(da) ==
    /\ pc = "acquire"
    /\ fails < MaxFails
    /\ Consume
    /\ fails' = fails + 1
    /\ win_fails' = win_fails + 1
    /\ UNCHANGED <<pc, STABLE_WINDOWS, cal_i, idx, windowCount, cal, bufs, ana,
                   dec, leds, raised, calhist, wlog, win_seen, hist, boot, one>>

\* d[idx] = raw * lsb - baseline
Store(d, i, v) == [d EXCEPT ![i] = v]

\* the six values stored by one tick
Samples(da, dg) ==
    <<SampleAcc(da, 0) - baseline_acc[0], SampleAcc(da, 1) - baseline_acc[1],
      SampleAcc(da, 2) - baseline_acc[2], SampleGyr(dg, 0) - baseline_gyr[0],
      SampleGyr(dg, 1) - baseline_gyr[1], SampleGyr(dg, 2) - baseline_gyr[2]>>

\* both reads succeed: the six samples are stored at idx, ++idx, and the test
\* of while (idx < N)
AcqTick(da, dg) ==
    /\ pc = "acquire"
    /\ Consume
    /\ LET v == Samples(da, dg)
       IN  /\ ax' = Store(ax, idx, v[1])
           /\ ay' = Store(ay, idx, v[2])
           /\ az' = Store(az, idx, v[3])
           /\ gx' = Store(gx, idx, v[4])
           /\ gy' = Store(gy, idx, v[5])
           /\ gz' = Store(gz, idx, v[6])
           /\ wlog' = Append(wlog, [i |-> idx, v |-> v])
    /\ win_seen' = SeeGyr(SeeAcc(win_seen, da), dg)
    /\ idx' = idx + 1
    /\ pc' = IF idx + 1 < N THEN "acquire" ELSE "pad"
    /\ UNCHANGED <<STABLE_WINDOWS, cal_i, windowCount, cal, ana, dec, leds,
                   raised, fails, calhist, win_fails, hist, boot, one>>

\* mutant: no zero padding
Pad_None(d) == d

\* for (size_t i = N; i < FFTN; i++) ax[i] = ... = gz[i] = 0;
Pad(d) == [k \in 0..(FFTN - 1) |-> IF k >= N THEN 0 ELSE d[k]]

ZeroPad ==
    /\ pc = "pad"
    /\ ax' = Pad(ax) /\ ay' = Pad(ay) /\ az' = Pad(az)
    /\ gx' = Pad(gx) /\ gy' = Pad(gy) /\ gz' = Pad(gz)
    /\ pc' = "analyze"
    /\ UNCHANGED <<tick_flag, STABLE_WINDOWS, cal_i, idx, windowCount, cal, ana,
                   dec, leds, ticks, calhist, winhist, hist, boot, one>>

(***************************************************************************)
(* Spectral analysis of one channel: the body of the lambda analyze.       *)
(***************************************************************************)
\* mutant: the quotient is rounded up
Round_Up(num, den) == (num + den - 1) \div den

\* roundf(f * FFTN / Fs) for a positive quotient
Round(num, den) == (2 * num + den) \div (2 * den)
i3 == Round(3 * FFTN, Fs)
i5 == Round(5 * FFTN, Fs)
i7 == Round(7 * FFTN, Fs)

\* for (k = 1; k < i7 + 3; k++) rms += mag[k] * mag[k];  run from bin k on
\* mutant: the RMS range stops below the bands
SumSq_Low(m, k, acc) == acc + m[1] * m[1]

RECURSIVE SumSq(_, _, _)
SumSq(m, k, acc) ==
    IF k < i7 + 3 THEN SumSq(m, k + 1, acc + m[k] * m[k]) ELSE acc

\* mutant: a later bin of equal magnitude replaces the peak bin
RECURSIVE PeakScan_Last(_, _, _, _, _)
PeakScan_Last(m, k, hi, p, kp) ==
    IF k <= hi
    THEN IF m[k] >= p THEN PeakScan_Last(m, k + 1, hi, m[k], k)
                      ELSE PeakScan_Last(m, k + 1, hi, p, kp)
    ELSE [p |-> p, k |-> kp]

\* for (k = lo; k <= hi; k++) if (mag[k] > p) { p = mag[k]; kp = k; }
RECURSIVE PeakScan(_, _, _, _, _)
PeakScan(m, k, hi, p, kp) ==
    IF k <= hi
    THEN IF m[k] > p THEN PeakScan(m, k + 1, hi, m[k], k)
                     ELSE PeakScan(m, k + 1, hi, p, kp)
    ELSE [p |-> p, k |-> kp]

\* rms (as the sum of squares), p35, k35, p57, k57 of one magnitude spectrum
Spectral(m) ==
    LET a == PeakScan(m, i3, i5, 0, i3)
        b == PeakScan(m, i5, i7, 0, i5)
    IN  [sumsq |-> SumSq(m, 1, 0), p35 |-> a.p, k35 |-> a.k,
         p57 |-> b.p, k57 |-> b.k]

\* p / rms > PEAK_TO_RMS in float: p / 0 is +inf for p > 0 and NaN for p = 0
RatioOver(p, sumsq) ==
    IF sumsq = 0 THEN p > 0
    ELSE p * p * (i7 + 2) * 100 > PEAK_TO_RMS_X10 * PEAK_TO_RMS_X10 * sumsq

\* mutant: the floor test is not strict
FloorOver_Ge(sumsq, th) ==
    100 * sumsq >= RMS_FLOOR_X10 * RMS_FLOOR_X10 * th * th * (i7 + 2)

\* rms > th * 0.5f
FloorOver(sumsq, th) ==
    100 * sumsq > RMS_FLOOR_X10 * RMS_FLOOR_X10 * th * th * (i7 + 2)

\* && evaluates p / rms only when p >= th holds
QuotientEvaluated(p, th) == p >= th

\* p >= th && p / rms > PEAK_TO_RMS && rms > th * 0.5f
BandTest(p, sumsq, th) ==
    p >= th /\ RatioOver(p, sumsq) /\ FloorOver(sumsq, th)

\* mutant: the quotient is truncated to an integer before it is stored
Level_Int(p, scale) == ((p * scale) \div LEVEL_ONE) * LEVEL_ONE

\* p / scale, in level units; scale is given as the level of one magnitude unit
Level(p, scale) == p * scale

Max(a, b) == IF a > b THEN a ELSE b
Min(a, b) == IF a < b THEN a ELSE b

\* mutant: a call overwrites the flags set by the calls before it
analyze_Last(st, m, tth, dth, scale) ==
    LET r == Spectral(m)
        t == BandTest(r.p35, r.sumsq, tth)
        d == BandTest(r.p57, r.sumsq, dth)
    IN  [trem |-> t,
         levelT |-> IF t THEN Max(st.levelT, Level(r.p35, scale)) ELSE st.levelT,
         dysk |-> d,
         levelD |-> IF d THEN Max(st.levelD, Level(r.p57, scale)) ELSE st.levelD]

\* one call analyze(d, tth, dth, scale, tag) on the running trem, dysk, levelT, levelD
analyze(st, m, tth, dth, scale) ==
    LET r == Spectral(m)
        t == BandTest(r.p35, r.sumsq, tth)
        d == BandTest(r.p57, r.sumsq, dth)
    IN  [trem |-> st.trem \/ t,
         levelT |-> IF t THEN Max(st.levelT, Level(r.p35, scale)) ELSE st.levelT,
         dysk |-> st.dysk \/ d,
         levelD |-> IF d THEN Max(st.levelD, Level(r.p57, scale)) ELSE st.levelD]

\* the per-channel arguments of the six calls, in call order AX AY AZ GX GY GZ
TTh(c) == IF c <= 3 THEN ACC_T_TH ELSE GYR_T_TH
DTh(c) == IF c <= 3 THEN ACC_D_TH ELSE GYR_D_TH
Scale(c) == IF c <= 3 THEN ACC_LEVEL ELSE GYR_LEVEL

RECURSIVE AnalyzeFrom(_, _, _)
AnalyzeFrom(st, ms, c) ==
    IF c > 6 THEN st
    ELSE AnalyzeFrom(analyze(st, ms[c], TTh(c), DTh(c), Scale(c)), ms, c + 1)

\* mutant: the levels are not clamped
Analysis_NoClamp(ms) ==
    AnalyzeFrom([trem |-> FALSE, dysk |-> FALSE, levelT |-> 0, levelD |-> 0], ms, 1)

\* bool trem = false, dysk = false; float levelT = 0, levelD = 0; the six calls;
\* levelT = fminf(levelT, 1.0f); levelD = fminf(levelD, 1.0f);
Analysis(ms) ==
    LET st == AnalyzeFrom([trem |-> FALSE, dysk |-> FALSE, levelT |-> 0, levelD |-> 0],
                          ms, 1)
    IN  [trem |-> st.trem, dysk |-> st.dysk,
         levelT |-> Min(st.levelT, LEVEL_ONE), levelD |-> Min(st.levelD, LEVEL_ONE)]

(***************************************************************************)
(* The magnitude spectra the FFT can return: a spectrum is given by its    *)
(* non-zero bins.  The transform is linear, so an all-zero buffer has the  *)
(* all-zero spectrum.                                                      *)
(***************************************************************************)
Tones(t) == [k \in 0..(HALF - 1) |-> IF k \in DOMAIN t THEN t[k] ELSE 0]
Flat(v) == [k \in 0..(HALF - 1) |-> v]

S_Zero == ZeroMag
\* peak_3_5 = 0.15 at 9, rms = 0.05: 150^2 + 2 * 100^2 + 2 * 50^2 = 19 * 50^2
S_Scenario == Tones(1 :> 100 @@ 2 :> 100 @@ 3 :> 50 @@ 4 :> 50 @@ 9 :> 150)
S_Trem == Tones(9 :> 400)
S_Dysk == Tones(14 :> 300)
\* the same on a gyroscope channel: 80 dps and 60 dps
S_TremG == Tones(9 :> 800)
S_DyskG == Tones(14 :> 600)
S_Shared == Tones(12 :> 300)
S_Sat == Tones(8 :> 700 @@ 15 :> 600)
S_Noise == Flat(200)
S_Weak == Tones(10 :> 90 @@ 16 :> 120 @@ 17 :> 120)
\* peak_3_5 = 0.15 at 9, rms = 0.06: 3 * 150^2 + 30^2 = 19 * 60^2
S_Above == Tones(1 :> 150 @@ 2 :> 150 @@ 3 :> 30 @@ 9 :> 150)

IsZero(d) == \A k \in 0..(FFTN - 1) : d[k] = 0
Buf(c) == CASE c = 1 -> ax [] c = 2 -> ay [] c = 3 -> az
            [] c = 4 -> gx [] c = 5 -> gy [] c = 6 -> gz

\* arm_rfft_fast_f32 and arm_cmplx_mag_f32 on the six buffers
FftOk(ms) == \A c \in 1..6 : IsZero(Buf(c)) => ms[c] = ZeroMag

\* arm_rfft_fast_f32 may use its input buffer as working storage: after the call
\* the buffer holds what the transform left there, over its whole length
Scratch(d, used) ==
    IF used /\ ~IsZero(d) THEN [k \in 0..(FFTN - 1) |-> -1] ELSE d

\* the analysis of the window: the six transforms, the six calls of analyze,
\* the two fminf
Analyze(ms, used) ==
    /\ pc = "analyze"
    /\ FftOk(ms)
    /\ mag' = ms
    /\ LET r == Analysis(ms)
       IN  /\ trem' = r.trem
           /\ dysk' = r.dysk
           /\ levelT' = r.levelT
           /\ levelD' = r.levelD
    /\ ax' = Scratch(ax, used) /\ ay' = Scratch(ay, used) /\ az' = Scratch(az, used)
    /\ gx' = Scratch(gx, used) /\ gy' = Scratch(gy, used) /\ gz' = Scratch(gz, used)
    /\ pc' = "decide"
    /\ UNCHANGED <<tick_flag, STABLE_WINDOWS, cal_i, idx, windowCount, cal, dec,
                   leds, ticks, calhist, winhist, hist, boot, one>>

(***************************************************************************)
(* Decision and LED feedback.                                              *)
(***************************************************************************)
\* mutant: equal levels select tremor
DyskWins_Strict == dysk /\ (~trem \/ levelD > levelT)

\* dysk && (!trem || levelD >= levelT)
DyskWins == dysk /\ (~trem \/ levelD >= levelT)
\* else if (trem)
TremWins == ~DyskWins /\ trem

Winner == IF DyskWins THEN "D" ELSE IF TremWins THEN "T" ELSE "-"

\* the level of the branch taken
WinLevel == IF DyskWins THEN levelD ELSE IF TremWins THEN levelT ELSE 0

\* mutants: a counter is not reset by a window its condition does not win
StableDysk_NoReset(n) == IF DyskWins THEN n + 1 ELSE n
StableTrem_NoReset(n) == IF TremWins THEN n + 1 ELSE n

\* mutant: the tremor counter counts every window with a winner
StableTrem_AnyWin(n) == IF DyskWins \/ TremWins THEN n + 1 ELSE 0

\* stable_dyskinesia++ in the first branch, = 0 in the other two
StableDysk(n) == IF DyskWins THEN n + 1 ELSE 0
\* stable_tremor = 0 in the first branch, ++ in the second, = 0 in the third
StableTrem(n) == IF DyskWins THEN 0 ELSE IF TremWins THEN n + 1 ELSE 0

\* mutant: the LEDs are not cleared before the active one is written
Decide_NoClear ==
    /\ pc = "decide"
    /\ stable_dyskinesia' = StableDysk(stable_dyskinesia)
    /\ stable_tremor' = StableTrem(stable_tremor)
    /\ show_dyskinesia' = (DyskWins /\ stable_dyskinesia' >= STABLE_WINDOWS)
    /\ show_tremor' = (TremWins /\ stable_tremor' >= STABLE_WINDOWS)
    /\ led_dyskinesia' = IF show_dyskinesia' THEN levelD ELSE led_dyskinesia
    /\ led_dyskinesia_period' =
           IF show_dyskinesia' THEN PERIOD_DYSK_MS ELSE led_dyskinesia_period
    /\ led_tremor' = IF ~show_dyskinesia' /\ show_tremor' THEN levelT ELSE led_tremor
    /\ led_tremor_period' =
           IF ~show_dyskinesia' /\ show_tremor' THEN PERIOD_TREM_MS
           ELSE led_tremor_period
    /\ led_status' = IF show_tremor' \/ show_dyskinesia' THEN 1 ELSE 0
    /\ led_power' = 0
    /\ hist' = Append(hist, [w |-> Winner, l |-> WinLevel])
    /\ pc' = "win_start"
    /\ UNCHANGED <<tick_flag, STABLE_WINDOWS, cal_i, idx, windowCount, cal, bufs,
                   ana, ticks, calhist, winhist, boot,
                   one>>

Decide ==
    /\ pc = "decide"
    /\ stable_dyskinesia' = StableDysk(stable_dyskinesia)
    /\ stable_tremor' = StableTrem(stable_tremor)
    /\ show_dyskinesia' = (DyskWins /\ stable_dyskinesia' >= STABLE_WINDOWS)
    /\ show_tremor' = (TremWins /\ stable_tremor' >= STABLE_WINDOWS)
    \* led_tremor.write(0); led_dyskinesia.write(0); then the active one
    /\ led_dyskinesia' = IF show_dyskinesia' THEN levelD ELSE 0
    /\ led_dyskinesia_period' =
           IF show_dyskinesia' THEN PERIOD_DYSK_MS ELSE led_dyskinesia_period
    /\ led_tremor' = IF ~show_dyskinesia' /\ show_tremor' THEN levelT ELSE 0
    /\ led_tremor_period' =
           IF ~show_dyskinesia' /\ show_tremor' THEN PERIOD_TREM_MS
           ELSE led_tremor_period
    /\ led_status' = IF show_tremor' \/ show_dyskinesia' THEN 1 ELSE 0
    /\ led_power' = 0
    /\ hist' = Append(hist, [w |-> Winner, l |-> WinLevel])
    /\ pc' = "win_start"
    /\ UNCHANGED <<tick_flag, STABLE_WINDOWS, cal_i, idx, windowCount, cal, bufs,
                   ana, ticks, calhist, winhist, boot,
                   one>>

OneHot(c, s) == [d \in 1..6 |-> IF d = c THEN s ELSE ZeroMag]
TwoHot(c, s, d, t) == [e \in 1..6 |-> IF e = c THEN s ELSE IF e = d THEN t ELSE ZeroMag]

Spectra == {S_Zero, S_Scenario, S_Above, S_Trem, S_Dysk, S_Shared, S_Sat,
            S_Noise, S_Weak}
\* the spectra of a window in SpecWin
Scenes ==
    { OneHot(2, s) : s \in Spectra }
    \cup { OneHot(5, S_TremG), OneHot(5, S_DyskG), OneHot(6, S_Weak),
           TwoHot(1, S_Trem, 4, S_DyskG), TwoHot(3, S_Above, 4, S_DyskG),
           TwoHot(1, S_Scenario, 5, S_Weak) }
\* the spectra of a window in Spec
FewScenes == { OneHot(1, S_Zero), OneHot(2, S_Trem) }

(***************************************************************************)
(* The single-LED variant (src/unnamed/part_000, second program): no       *)
(* calibration, no RMS floor, one PWM LED blinked during the window that   *)
(* follows a detection.  Its definitions carry the suffix _1.              *)
(***************************************************************************)
Fs_1 == 104
FFTN_1 == 512
\* N = Fs * WIN_S samples a window, and ticks a feedback phase; cut to MaxN_1,
\* longer than the half period of the faster blink
MaxN_1 == 12
N_1 == MaxN_1
HALF_1 == FFTN_1 \div 2
\* 0.30 g, 40 dps, in the units of the magnitudes
ACC_T_TH_1 == 300
ACC_D_TH_1 == 300
GYR_T_TH_1 == 400
GYR_D_TH_1 == 400
PEAK_TO_RMS_1 == 4
\* freq = 5 (dyskinesia), freq = 2 (tremor)
FREQ_DYSK_1 == 5
FREQ_TREM_1 == 2

i3_1 == Round(3 * FFTN_1, Fs_1)
i5_1 == Round(5 * FFTN_1, Fs_1)
i7_1 == Round(7 * FFTN_1, Fs_1)

ZeroBuf_1 == [k \in 0..(FFTN_1 - 1) |-> 0]
ZeroMag_1 == [k \in 0..(HALF_1 - 1) |-> 0]

InitOne ==
    /\ pc = "start1"
    /\ tick_flag = FALSE
    /\ STABLE_WINDOWS = 1
    /\ cal_i = 0
    /\ idx = 0
    /\ baseline_acc = Zero3
    /\ baseline_gyr = Zero3
    /\ is_calibrated = FALSE
    /\ ax = ZeroBuf_1 /\ ay = ZeroBuf_1 /\ az = ZeroBuf_1
    /\ gx = ZeroBuf_1 /\ gy = ZeroBuf_1 /\ gz = ZeroBuf_1
    /\ windowCount = 0
    /\ mag = [c \in 1..6 |-> ZeroMag_1]
    /\ trem = FALSE /\ dysk = FALSE /\ levelT = 0 /\ levelD = 0
    /\ stable_tremor = 0 /\ stable_dyskinesia = 0
    /\ show_tremor = FALSE /\ show_dyskinesia = FALSE
    /\ led_tremor = 0 /\ led_dyskinesia = 0
    /\ led_tremor_period = PERIOD_UNSET /\ led_dyskinesia_period = PERIOD_UNSET
    /\ led_status = 0 /\ led_power = 0
    /\ raised = 0 /\ consumed = 0 /\ reads = 0 /\ fails = 0
    /\ cal_n_acc = 0 /\ cal_n_gyr = 0
    /\ pair_acc = Zero3 /\ pair_gyr = Zero3
    /\ cal_seen = NoneSeen
    /\ wlog = <<>>
    /\ win_seen = NoneSeen
    /\ win_fails = 0
    /\ hist = <<>>
    /\ LSM_ADDR = ADDR_LO * 2
    /\ boot_log = <<"Boot", "Found LSM6DSL", "CTRL", "Freq bins">>
    /\ who = <<WHO_LSM6DSL>>
    /\ led = 0 /\ freq = 0 /\ duty = 0 /\ cnt = 0

\* logf("--- Window %lu ---", ++windowCount); size_t idx = 0;
Start_1(maxw) ==
    /\ pc = "start1"
    /\ windowCount < maxw
    /\ windowCount' = windowCount + 1
    /\ idx' = 0
    /\ wlog' = <<>>
    /\ win_seen' = NoneSeen
    /\ win_fails' = 0
    /\ mag' = [c \in 1..6 |-> ZeroMag_1]
    /\ pc' = "acquire1"
    /\ UNCHANGED <<tick_flag, STABLE_WINDOWS, cal_i, cal, bufs, trem, dysk,
                   levelT, levelD, dec, leds, ticks, calhist, hist, boot, one>>

\* if (rN(OUT_XL_L, data) != 0) continue;
AccFail_1 ==
    /\ pc = "acquire1"
    /\ fails < MaxFails
    /\ Consume
    /\ fails' = fails + 1
    /\ win_fails' = win_fails + 1
    /\ UNCHANGED <<pc, STABLE_WINDOWS, cal_i, idx, windowCount, cal, bufs, ana,
                   dec, leds, raised, calhist, wlog, win_seen, hist, boot, one>>

\* if (rN(OUT_G_L, data) != 0) continue;
GyrFail_1(da) ==
    /\ pc = "acquire1"
    /\ fails < MaxFails
    /\ Consume
    /\ fails' = fails + 1
    /\ win_fails' = win_fails + 1
    /\ UNCHANGED <<pc, STABLE_WINDOWS, cal_i, idx, windowCount, cal, bufs, ana,
                   dec, leds, raised, calhist, wlog, win_seen, hist, boot, one>>

\* ax[idx] = axr * 0.000061f; ... gz[idx] = gzr * 0.00875f;
Samples_1(da, dg) ==
    <<SampleAcc(da, 0), SampleAcc(da, 1), SampleAcc(da, 2),
      SampleGyr(dg, 0), SampleGyr(dg, 1), SampleGyr(dg, 2)>>

Tick_1(da, dg) ==
    /\ pc = "acquire1"
    /\ Consume
    /\ LET v == Samples_1(da, dg)
       IN  /\ ax' = Store(ax, idx, v[1])
           /\ ay' = Store(ay, idx, v[2])
           /\ az' = Store(az, idx, v[3])
           /\ gx' = Store(gx, idx, v[4])
           /\ gy' = Store(gy, idx, v[5])
           /\ gz' = Store(gz, idx, v[6])
           /\ wlog' = Append(wlog, [i |-> idx, v |-> v])
    /\ win_seen' = SeeGyr(SeeAcc(win_seen, da), dg)
    /\ idx' = idx + 1
    /\ pc' = IF idx + 1 < N_1 THEN "acquire1" ELSE "pad1"
    /\ UNCHANGED <<STABLE_WINDOWS, cal_i, windowCount, cal, ana, dec, leds,
                   raised, fails, calhist, win_fails, hist, boot, one>>

\* for (size_t i = N; i < FFTN; i++) ax[i] = ... = gz[i] = 0;
Pad_1(d) == [k \in 0..(FFTN_1 - 1) |-> IF k >= N_1 THEN 0 ELSE d[k]]

ZeroPad_1 ==
    /\ pc = "pad1"
    /\ ax' = Pad_1(ax) /\ ay' = Pad_1(ay) /\ az' = Pad_1(az)
    /\ gx' = Pad_1(gx) /\ gy' = Pad_1(gy) /\ gz' = Pad_1(gz)
    /\ pc' = "analyze1"
    /\ UNCHANGED <<tick_flag, STABLE_WINDOWS, cal_i, idx, windowCount, cal, ana,
                   dec, leds, ticks, calhist, winhist, hist, boot, one>>

\* for (int k = 1; k < i7 + 3; k++) rms += mag[k] * mag[k];
RECURSIVE SumSq_1(_, _, _)
SumSq_1(m, k, acc) ==
    IF k < i7_1 + 3 THEN SumSq_1(m, k + 1, acc + m[k] * m[k]) ELSE acc

Spectral_1(m) ==
    LET a == PeakScan(m, i3_1, i5_1, 0, i3_1)
        b == PeakScan(m, i5_1, i7_1, 0, i5_1)
    IN  [sumsq |-> SumSq_1(m, 1, 0), p35 |-> a.p, k35 |-> a.k,
         p57 |-> b.p, k57 |-> b.k]

\* p / rms > PEAK_TO_RMS in float: p / 0 is +inf for p > 0 and NaN for p = 0
RatioOver_1(p, sumsq) ==
    IF sumsq = 0 THEN p > 0
    ELSE p * p * (i7_1 + 2) > PEAK_TO_RMS_1 * PEAK_TO_RMS_1 * sumsq

\* p >= th && p / rms > PEAK_TO_RMS
BandTest_1(p, sumsq, th) == p >= th /\ RatioOver_1(p, sumsq)

analyze_1(st, m, tth, dth, scale) ==
    LET r == Spectral_1(m)
        t == BandTest_1(r.p35, r.sumsq, tth)
        d == BandTest_1(r.p57, r.sumsq, dth)
    IN  [trem |-> st.trem \/ t,
         levelT |-> IF t THEN Max(st.levelT, Level(r.p35, scale)) ELSE st.levelT,
         dysk |-> st.dysk \/ d,
         levelD |-> IF d THEN Max(st.levelD, Level(r.p57, scale)) ELSE st.levelD]

TTh_1(c) == IF c <= 3 THEN ACC_T_TH_1 ELSE GYR_T_TH_1
DTh_1(c) == IF c <= 3 THEN ACC_D_TH_1 ELSE GYR_D_TH_1

RECURSIVE AnalyzeFrom_1(_, _, _)
AnalyzeFrom_1(st, ms, c) ==
    IF c > 6 THEN st
    ELSE AnalyzeFrom_1(analyze_1(st, ms[c], TTh_1(c), DTh_1(c), Scale(c)), ms, c + 1)

Analysis_1(ms) ==
    LET st == AnalyzeFrom_1([trem |-> FALSE, dysk |-> FALSE, levelT |-> 0,
                             levelD |-> 0], ms, 1)
    IN  [trem |-> st.trem, dysk |-> st.dysk,
         levelT |-> Min(st.levelT, LEVEL_ONE), levelD |-> Min(st.levelD, LEVEL_ONE)]

IsZero_1(d) == \A k \in 0..(FFTN_1 - 1) : d[k] = 0
FftOk_1(ms) == \A c \in 1..6 : IsZero_1(Buf(c)) => ms[c] = ZeroMag_1
Scratch_1(d) == IF ~IsZero_1(d) THEN [k \in 0..(FFTN_1 - 1) |-> -1] ELSE d

Analyze_1(ms) ==
    /\ pc = "analyze1"
    /\ FftOk_1(ms)
    /\ mag' = ms
    /\ LET r == Analysis_1(ms)
       IN  /\ trem' = r.trem
           /\ dysk' = r.dysk
           /\ levelT' = r.levelT
           /\ levelD' = r.levelD
    /\ ax' = Scratch_1(ax) /\ ay' = Scratch_1(ay) /\ az' = Scratch_1(az)
    /\ gx' = Scratch_1(gx) /\ gy' = Scratch_1(gy) /\ gz' = Scratch_1(gz)
    /\ pc' = "feedback1"
    /\ UNCHANGED <<tick_flag, STABLE_WINDOWS, cal_i, idx, windowCount, cal, dec,
                   leds, ticks, calhist, winhist, hist, boot, one>>

\* mutant: the branch without detection leaves the LED as it is
Feedback_1_NoOff ==
    /\ pc = "feedback1"
    /\ freq' = IF DyskWins THEN FREQ_DYSK_1 ELSE IF TremWins THEN FREQ_TREM_1 ELSE 0
    /\ duty' = WinLevel
    /\ IF DyskWins \/ TremWins
       THEN /\ cnt' = 0 /\ idx' = 0 /\ led' = led
            /\ pc' = "blink1"
       ELSE /\ led' = led
            /\ pc' = "start1"
            /\ UNCHANGED <<cnt, idx>>
    /\ hist' = Append(hist, [w |-> Winner, l |-> WinLevel])
    /\ UNCHANGED <<tick_flag, STABLE_WINDOWS, cal_i, windowCount, cal, bufs, ana,
                   dec, leds, ticks, calhist, winhist, boot>>

\* int freq = 0; float duty = 0; the three branches; in the first two
\* int half_period = Fs / (2 * freq); int cnt = 0; idx = 0;
Feedback_1 ==
    /\ pc = "feedback1"
    /\ freq' = IF DyskWins THEN FREQ_DYSK_1 ELSE IF TremWins THEN FREQ_TREM_1 ELSE 0
    /\ duty' = WinLevel
    /\ IF DyskWins \/ TremWins
       THEN /\ cnt' = 0 /\ idx' = 0 /\ led' = led
            /\ pc' = "blink1"
       ELSE \* led.write(0); continue;
            /\ led' = 0
            /\ pc' = "start1"
            /\ UNCHANGED <<cnt, idx>>
    /\ hist' = Append(hist, [w |-> Winner, l |-> WinLevel])
    /\ UNCHANGED <<tick_flag, STABLE_WINDOWS, cal_i, windowCount, cal, bufs, ana,
                   dec, leds, ticks, calhist, winhist, boot>>

half_period == Fs_1 \div (2 * freq)

\* one iteration of the blink loop on a due tick
Blink_1 ==
    /\ pc = "blink1"
    /\ Consume
    /\ led' = IF cnt < half_period THEN duty ELSE 0
    /\ cnt' = IF cnt + 1 >= half_period THEN 0 ELSE cnt + 1
    /\ idx' = idx + 1
    /\ pc' = IF idx + 1 < N_1 THEN "blink1" ELSE "start1"
    /\ UNCHANGED <<STABLE_WINDOWS, cal_i, windowCount, cal, bufs, ana, dec, leds,
                   raised, fails, calhist, winhist, hist, boot, freq, duty>>

Tones_1(t) == [k \in 0..(HALF_1 - 1) |-> IF k \in DOMAIN t THEN t[k] ELSE 0]
OneHot_1(c, s) == [d \in 1..6 |-> IF d = c THEN s ELSE ZeroMag_1]
TwoHot_1(c, s, d, t) ==
    [e \in 1..6 |-> IF e = c THEN s ELSE IF e = d THEN t ELSE ZeroMag_1]
S1_Trem == Tones_1(20 :> 800)
S1_Dysk == Tones_1(30 :> 600)
S1_Shared == Tones_1(25 :> 500)
S1_Low == Tones_1(20 :> 250 @@ 30 :> 250)
S1_Noise == [k \in 0..(HALF_1 - 1) |-> 400]
Scenes_1 ==
    { OneHot_1(1, ZeroMag_1), OneHot_1(2, S1_Trem), OneHot_1(5, S1_Trem),
      OneHot_1(3, S1_Dysk), OneHot_1(2, S1_Shared), OneHot_1(3, S1_Low),
      OneHot_1(4, S1_Noise), TwoHot_1(1, S1_Trem, 4, S1_Dysk) }
\* the scenes of the two-LED program in SpecLeds
LedScenes == { OneHot(1, S_Zero), OneHot(2, S_Trem), OneHot(5, S_DyskG) }

STABLE_WINDOWS_SRC == 1

Init == InitWith(STABLE_WINDOWS_SRC)

\* sampling: read failures at any tick, few spectra
Next ==
    \/ isr
    \/ CalAccFail
    \/ \E f \in RestFrames : CalGyrFail(f[1])
    \/ \E f \in RestFrames : CalTick(f[1], f[2])
    \/ CalSleep
    \/ CalFinish
    \/ WindowStart(MaxSampledWindows)
    \/ AcqAccFail
    \/ \E f \in Frames : AcqGyrFail(f[1])
    \/ \E f \in Frames : AcqTick(f[1], f[2])
    \/ ZeroPad
    \/ \E ms \in FewScenes, used \in BOOLEAN : Analyze(ms, used)
    \/ Decide

Spec == Init /\ [][Next]_vars

(***************************************************************************)
(* Claims about sampling, checked under Spec.                              *)
(***************************************************************************)
\* C1: no due-signal is skipped: the ISR firings never exceed the ticks consumed
\* by main by more than the one that is pending in tick_flag.
C1_NoTickSkipped == raised - consumed <= (IF tick_flag THEN 1 ELSE 0)

\* C2: no due-signal is used twice: the loop iterations that read the sensor
\* never outnumber the ticks consumed, nor those the ISR firings.
C2_NoTickUsedTwice == reads <= consumed /\ consumed <= raised
C2_Witness ==
    is_calibrated /\ pc = "acquire" /\ Len(wlog) >= 1 /\ reads >= 2 /\ win_fails >= 1

\* C4: after calibration every baseline is the sum of exactly M x N readings,
\* one per tick on which both reads succeeded, divided by M x N.
C4_BaselineIsPairMean ==
    is_calibrated =>
        /\ cal_n_acc = Q /\ cal_n_gyr = Q
        /\ \A k \in 0..2 : /\ baseline_acc[k] = pair_acc[k] \div Q
                           /\ baseline_gyr[k] = pair_gyr[k] \div Q

\* C5: if every reading of a channel during calibration is v and every reading
\* of it in a later window is v, every sample stored in that window is 0
\* (stated for calibrations in which no read failed, where each baseline is
\* the mean of M x N readings).
C5_SameDecoding ==
    (pc = "pad" /\ cal_n_acc = Q /\ cal_n_gyr = Q) =>
        \A c \in 1..6 : \A v \in cal_seen[c] :
            (cal_seen[c] = {v} /\ win_seen[c] = {v})
                => \A k \in 0..(N - 1) : Buf(c)[k] = 0

\* C6: a failed read in normal acquisition consumes the tick and leaves idx and
\* the six buffers unchanged, and every read attempt follows a due-signal.
C6_FailedTick ==
    [][ (pc = "acquire" /\ (win_fails' = win_fails + 1 \/ idx' = idx + 1))
        => /\ tick_flag /\ ~tick_flag'
           /\ (win_fails' = win_fails + 1
                 => idx' = idx /\ bufs' = bufs /\ pc' = "acquire") ]_vars
C6_Witness ==
    pc = "acquire" /\ win_fails >= 1 /\ idx = 1 /\ Len(wlog) = 1 /\ ~tick_flag

\* C7: when the analysis of a window starts, every buffer holds the N samples
\* written in that window at 0..N-1, each index once and in ascending order,
\* and zeros at N..FFTN-1; FFTN >= N.
C7_WindowShape ==
    pc = "analyze" =>
        /\ FFTN >= N
        /\ Len(wlog) = N
        /\ \A j \in 1..Len(wlog) :
              /\ wlog[j].i = j - 1
              /\ \A c \in 1..6 : Buf(c)[j - 1] = wlog[j].v[c]
        /\ \A c \in 1..6 : \A k \in N..(FFTN - 1) : Buf(c)[k] = 0
C7_Witness ==
    /\ pc = "analyze" /\ windowCount = 2 /\ win_fails >= 1
    /\ \E c \in 1..6 : Buf(c)[0] # 0 /\ Buf(c)[N - 1] # 0 /\ Buf(c)[0] # Buf(c)[N - 1]

\* C8: the six channels advance in lock-step: the readings summed into the
\* baseline, and the samples stored in a window, number the same for the
\* accelerometer and the gyroscope.
C8_LockStep ==
    /\ cal_n_acc = cal_n_gyr
    /\ \A j \in 1..Len(wlog) : DOMAIN wlog[j].v = 1..6

\* C13: while is_calibrated is false no analysis or decision has run, both
\* stability counters are 0 and all LED outputs are 0; is_calibrated is true
\* only after CALIBRATION_WINDOWS windows of N ticks on which both reads
\* succeeded and after the division of the baselines.
C13_CalibrationGates ==
    /\ ~is_calibrated =>
          /\ pc \in {"calibrate", "cal_sleep", "cal_div"}
          /\ windowCount = 0 /\ hist = <<>>
          /\ mag = [c \in 1..6 |-> ZeroMag]
          /\ ~trem /\ ~dysk /\ levelT = 0 /\ levelD = 0
          /\ stable_tremor = 0 /\ stable_dyskinesia = 0
          /\ ~show_tremor /\ ~show_dyskinesia
          /\ led_tremor = 0 /\ led_dyskinesia = 0
          /\ led_status = 0 /\ led_power = 0
    /\ is_calibrated =>
          /\ pc \notin {"calibrate", "cal_sleep", "cal_div"}
          /\ cal_i = CALIBRATION_WINDOWS
          /\ cal_n_gyr = Q
          /\ \A k \in 0..2 : baseline_gyr[k] = pair_gyr[k] \div Q
          /\ cal_n_acc = Q => \A k \in 0..2 : baseline_acc[k] = pair_acc[k] \div Q
C13_Witness ==
    /\ is_calibrated /\ pc = "win_start" /\ windowCount = 0
    /\ fails = 0 /\ cal_n_acc = Q
    /\ baseline_gyr[2] # 0 /\ baseline_acc[0] # 0

\* C14: once is_calibrated is true, no step writes baseline_acc, baseline_gyr
\* or is_calibrated.
C14_BaselineFrozen ==
    [][ is_calibrated =>
          /\ baseline_acc' = baseline_acc
          /\ baseline_gyr' = baseline_gyr
          /\ is_calibrated' ]_vars
C14_Witness ==
    /\ is_calibrated /\ pc = "win_start" /\ windowCount = MaxSampledWindows
    /\ Len(hist) = MaxSampledWindows /\ win_fails > 0
    /\ baseline_gyr[2] # 0 /\ baseline_acc[0] # 0

(***************************************************************************)
(* Claims about the decision, checked under SpecWin.                       *)
(***************************************************************************)
\* the tests of channel c on the window's spectrum
TremPass(c) == BandTest(Spectral(mag[c]).p35, Spectral(mag[c]).sumsq, TTh(c))
DyskPass(c) == BandTest(Spectral(mag[c]).p57, Spectral(mag[c]).sumsq, DTh(c))
\* one accelerometer channel has peak_3_5 = p (1e-3 g) and rms = r (1e-3 g),
\* and no other test on any channel passes
OneAccel(p, r) ==
    /\ pc = "decide"
    /\ \E c \in 1..3 :
          /\ Spectral(mag[c]).p35 = p
          /\ Spectral(mag[c]).sumsq = (i7 + 2) * r * r
          /\ ~DyskPass(c)
          /\ \A d \in (1..6) \ {c} : ~TremPass(d) /\ ~DyskPass(d)

\* C3 as stated: peak_3_5 = 0.15 and rms = 0.05 on one accelerometer channel
\* yield tremor_flag = true, tremor level 0.30 and dyskinesia_flag = false.
C3_Scenario == OneAccel(150, 50) => (trem /\ levelT = 30000 /\ ~dysk)

\* C3 amended: with rms = 0.05 the floor test rms > 0.10 * 0.5 fails, so the
\* window yields tremor_flag = false and level 0; the same peak with rms = 0.06
\* yields tremor_flag = true, level 0.30 and dyskinesia_flag = false.
C3_ScenarioFloor ==
    /\ OneAccel(150, 50) => (~trem /\ levelT = 0 /\ ~dysk)
    /\ OneAccel(150, 60) => (trem /\ levelT = 30000 /\ ~dysk)
C3_Witness == OneAccel(150, 50) /\ STABLE_WINDOWS = STABLE_WINDOWS_SRC /\ windowCount = 1

\* the number of windows at the end of the history that x won
Run(x) ==
    Cardinality({ k \in 1..Len(hist) : \A j \in k..Len(hist) : hist[j].w = x })
LastWindow == hist[Len(hist)]

\* C9: after each decision a condition is reported active exactly when it won
\* the last STABLE_WINDOWS windows in a row, and the intensity on its LED is
\* then the level of the last window.
C9_StabilityFilter ==
    (pc = "win_start" /\ Len(hist) > 0) =>
        /\ show_tremor = (Run("T") >= STABLE_WINDOWS)
        /\ show_dyskinesia = (Run("D") >= STABLE_WINDOWS)
        /\ show_tremor => led_tremor = LastWindow.l
        /\ show_dyskinesia => led_dyskinesia = LastWindow.l
C9_Witness ==
    /\ pc = "win_start" /\ STABLE_WINDOWS = 2 /\ Len(hist) = 3
    /\ hist[1].w = "D" /\ hist[2].w = "T" /\ hist[3].w = "T"
    /\ hist[2].l # hist[3].l
    /\ show_tremor /\ ~show_dyskinesia /\ led_tremor = hist[3].l

\* a window won by the condition that did not win the one before, or by none
OppositeOrNeither ==
    \/ LastWindow.w = "-"
    \/ /\ Len(hist) >= 2
       /\ hist[Len(hist) - 1].w # "-"
       /\ hist[Len(hist) - 1].w # LastWindow.w

\* C10 as stated: after the decision of a window that the opposite condition
\* wins, or that neither wins, both counters are 0.
C10_BothZero ==
    (pc = "win_start" /\ Len(hist) > 0 /\ OppositeOrNeither) =>
        (stable_tremor = 0 /\ stable_dyskinesia = 0)

\* C10 amended: after such a window the counter of every condition that did
\* not win it is 0 and the counter of the winner, if any, is 1.
C10_LoserZero ==
    (pc = "win_start" /\ Len(hist) > 0 /\ OppositeOrNeither) =>
        /\ stable_tremor = (IF LastWindow.w = "T" THEN 1 ELSE 0)
        /\ stable_dyskinesia = (IF LastWindow.w = "D" THEN 1 ELSE 0)
C10_Witness ==
    /\ pc = "win_start" /\ Len(hist) = 3
    /\ hist[1].w = "T" /\ hist[2].w = "T" /\ hist[3].w = "D"
    /\ stable_tremor = 0 /\ stable_dyskinesia = 1

\* C11: when both flags of a window are set, the window counts for dyskinesia
\* iff levelD >= levelT, the levels being clamped to 1, and for tremor iff
\* levelD < levelT; no window counts for both conditions.
C11_TieBreak ==
    (pc = "win_start" /\ Len(hist) > 0) =>
        /\ levelT <= LEVEL_ONE /\ levelD <= LEVEL_ONE
        /\ (trem /\ dysk) =>
              /\ (stable_dyskinesia > 0) = (levelD >= levelT)
              /\ (stable_tremor > 0) = (levelD < levelT)
        /\ ~(stable_tremor > 0 /\ stable_dyskinesia > 0)
        /\ ~(show_tremor /\ show_dyskinesia)
        /\ ~(led_tremor > 0 /\ led_dyskinesia > 0)
C11_Witness ==
    /\ pc = "win_start" /\ trem /\ dysk
    /\ levelT = LEVEL_ONE /\ levelD = LEVEL_ONE
    /\ \E c \in 1..3 : Level(Spectral(mag[c]).p35, Scale(c))
                          > Level(Spectral(mag[c]).p57, Scale(c))
    /\ stable_dyskinesia > 0 /\ stable_tremor = 0
    /\ show_dyskinesia /\ led_dyskinesia = LEVEL_ONE

(***************************************************************************)
(* Start-up followed by the calibration and the acquisition of the first   *)
(* windows.                                                                *)
(***************************************************************************)
NextBoot ==
    \/ BootMsg
    \/ \E v \in WhoAnswers : Probe(v)
    \/ Configure
    \/ Setup
    \/ isr
    \/ CalAccFail
    \/ \E f \in RestFrames : CalTick(f[1], f[2])
    \/ CalSleep
    \/ CalFinish
    \/ WindowStart(MaxSampledWindows)
    \/ \E f \in MoveFrames : AcqTick(f[1], f[2])
    \/ ZeroPad

SpecBoot == InitBoot /\ [][NextBoot]_vars

\* no answer of r8(WHO_AM_I) was the identity of the LSM6DSL
NotFound == \A j \in 1..Len(who) : who[j] # WHO_LSM6DSL
Logged(line) == \E j \in 1..Len(boot_log) : boot_log[j] = line

\* C17: if neither address answers WHO_AM_I with 0x6A, a diagnostic line
\* reporting that the sensor was not found has been emitted by the time the
\* detection is over.
C17_NotFoundLogged ==
    (pc \notin {"boot", "detect"} /\ NotFound) => Logged("Sensor not found")

(***************************************************************************)
(* Analysis: the sensor at rest during calibration, at rest or moving      *)
(* afterwards, every reading non-negative at rest; many spectra.           *)
(***************************************************************************)
QuietFrames == { <<Frame(3, 0, 32767), Frame(0, 5, 7)>> }

\* spectra with one or two tones, on and around the bins the analysis reads
GenBins == {0, 1, i3, i5, i7, i7 + 2, i7 + 3}
GenVals == {300, 700}
\* the bins that enter the RMS sum, for the spectra with two tones
GenPairBins == {1, i3, i5, i7, i7 + 2}
GenSpectra ==
    { Tones(b :> v) : b \in GenBins, v \in GenVals }
    \cup { Tones(b :> v @@ c :> w) :
             b \in GenPairBins, c \in GenPairBins, v \in GenVals, w \in GenVals }
AnaScenes ==
    { OneHot(2, s) : s \in GenSpectra \cup Spectra }
    \cup { OneHot(5, s) : s \in {S_TremG, S_DyskG, S_Sat, S_Shared, S_Weak} }
    \cup { TwoHot(1, S_Trem, 3, S_Above), TwoHot(1, S_Above, 3, S_Trem),
           TwoHot(1, S_Trem, 4, S_DyskG), TwoHot(2, S_Dysk, 6, S_TremG),
           TwoHot(3, S_Sat, 5, S_Sat), TwoHot(1, S_Scenario, 5, S_Weak),
           TwoHot(1, S_Trem, 5, S_Noise) }

InitAna == InitWith(STABLE_WINDOWS_SRC)

NextAna ==
    \/ isr
    \/ \E f \in QuietFrames : CalTick(f[1], f[2])
    \/ CalSleep
    \/ CalFinish
    \/ WindowStart(MaxAnaWindows)
    \/ \E f \in QuietFrames \cup MoveFrames : AcqTick(f[1], f[2])
    \/ ZeroPad
    \/ \E ms \in AnaScenes : Analyze(ms, TRUE)
    \/ Decide

SpecAna == InitAna /\ [][NextAna]_vars

(***************************************************************************)
(* Claims about the analysis, checked under SpecAna.                       *)
(***************************************************************************)
\* the window has been analysed and its spectra are still in mag
Analysed == pc = "decide" \/ (pc = "win_start" /\ Len(hist) > 0)
\* every sample stored in the window is 0, in every channel
AllZeroWindow ==
    Len(wlog) = N /\ \A j \in 1..Len(wlog) : \A c \in 1..6 : wlog[j].v[c] = 0
\* analyze evaluates peak / rms with rms = 0 on channel c
DivByZero(c) ==
    /\ Spectral(mag[c]).sumsq = 0
    /\ \/ QuotientEvaluated(Spectral(mag[c]).p35, TTh(c))
       \/ QuotientEvaluated(Spectral(mag[c]).p57, DTh(c))

\* C12: in a window whose samples are all zero every channel has rms = 0 and
\* both peaks 0, peak / rms is not evaluated, no test passes and no condition
\* is reported; in any window rms = 0 implies that both band peaks are 0 and
\* that peak / rms is not evaluated.
C12_ZeroRmsGuard ==
    Analysed =>
        /\ \A c \in 1..6 :
              Spectral(mag[c]).sumsq = 0 =>
                  /\ Spectral(mag[c]).p35 = 0 /\ Spectral(mag[c]).p57 = 0
                  /\ ~DivByZero(c)
        /\ AllZeroWindow =>
              /\ \A c \in 1..6 : /\ Spectral(mag[c]).sumsq = 0
                                 /\ ~TremPass(c) /\ ~DyskPass(c)
              /\ ~trem /\ ~dysk /\ levelT = 0 /\ levelD = 0
              /\ pc = "win_start" =>
                    /\ ~show_tremor /\ ~show_dyskinesia
                    /\ led_tremor = 0 /\ led_dyskinesia = 0 /\ led_status = 0
C12_Witness ==
    /\ pc = "win_start" /\ Len(hist) = 1 /\ AllZeroWindow
    /\ \A c \in 1..6 : IsZero(Buf(c)) /\ Spectral(mag[c]).sumsq = 0
    /\ baseline_acc[2] # 0

RECURSIVE SetMax(_)
SetMax(S) ==
    LET x == CHOOSE y \in S : TRUE
    IN  IF S = {x} THEN x ELSE Max(x, SetMax(S \ {x}))
\* peak / scale with scale 0.5 (accelerometer) and 100 (gyroscope), in level units
C16_Level(p, c) == IF c \in 1..3 THEN p * 200 ELSE p * 100
C16_LevelsT == { C16_Level(Spectral(mag[c]).p35, c) : c \in {d \in 1..6 : TremPass(d)} }
C16_LevelsD == { C16_Level(Spectral(mag[c]).p57, c) : c \in {d \in 1..6 : DyskPass(d)} }
C16_Clamped(S) == IF S = {} THEN 0 ELSE Min(LEVEL_ONE, SetMax(S))

\* C16: after the aggregation of a window levelT and levelD lie in [0, 1] and
\* equal min(1, max of peak / scale over the channels whose test passed), 0 when
\* none passed; every duty cycle written to an LED lies in [0, 1].
C16_LevelsClamped ==
    Analysed =>
        /\ levelT = C16_Clamped(C16_LevelsT) /\ levelD = C16_Clamped(C16_LevelsD)
        /\ 0 <= levelT /\ levelT <= LEVEL_ONE
        /\ 0 <= levelD /\ levelD <= LEVEL_ONE
        /\ 0 <= led_tremor /\ led_tremor <= LEVEL_ONE
        /\ 0 <= led_dyskinesia /\ led_dyskinesia <= LEVEL_ONE
C16_Witness ==
    /\ pc = "win_start" /\ Len(hist) = 1
    /\ SetMax(C16_LevelsT \cup {0}) > LEVEL_ONE
    /\ C16_LevelsD # {} /\ SetMax(C16_LevelsD \cup {0}) < LEVEL_ONE
    /\ levelT = LEVEL_ONE /\ led_tremor = LEVEL_ONE /\ led_dyskinesia = 0

\* the test of the claim on a peak p, a sum of squares over i7 + 2 bins and a
\* threshold th: p >= th, p / rms > 1.5, rms > th * 0.5
C18_Pass(p, sumsq, th) ==
    /\ p >= th
    /\ sumsq > 0 => 4 * p * p * (i7 + 2) > 9 * sumsq
    /\ 4 * sumsq > th * th * (i7 + 2)
C18_Trem(c) ==
    C18_Pass(Spectral(mag[c]).p35, Spectral(mag[c]).sumsq,
             IF c \in 1..3 THEN ACC_T_TH ELSE GYR_T_TH)
C18_Dysk(c) ==
    C18_Pass(Spectral(mag[c]).p57, Spectral(mag[c]).sumsq,
             IF c \in 1..3 THEN ACC_D_TH ELSE GYR_D_TH)

\* C18: the tremor flag of a window is true iff at least one of the six
\* channels passes the tremor test (peak >= threshold, peak / rms > PEAK_TO_RMS,
\* rms > threshold x 0.5, accelerometer thresholds for AX AY AZ and gyroscope
\* thresholds for GX GY GZ), likewise the dyskinesia flag, whatever the order
\* of the channels.
C18_FlagsAnyChannel ==
    Analysed =>
        /\ trem = (\E c \in 1..6 : C18_Trem(c))
        /\ dysk = (\E c \in 1..6 : C18_Dysk(c))
        /\ \A c \in 1..6 : TremPass(c) = C18_Trem(c) /\ DyskPass(c) = C18_Dysk(c)
C18_Witness ==
    /\ pc = "decide" /\ trem /\ ~dysk
    /\ C18_Trem(1) /\ \A c \in 2..6 : ~C18_Trem(c)
    /\ Spectral(mag[5]).p35 >= GYR_T_TH /\ Spectral(mag[5]).p57 >= GYR_D_TH

RECURSIVE SumOver(_, _)
SumOver(S, m) ==
    IF S = {} THEN 0
    ELSE LET k == CHOOSE j \in S : TRUE
         IN  m[k] * m[k] + SumOver(S \ {k}, m)
\* p and k are the maximum of m over lo..hi and the lowest bin attaining it
C19_Peak(m, lo, hi, p, k) ==
    /\ \A j \in lo..hi : m[j] <= p
    /\ k \in lo..hi /\ m[k] = p
    /\ \A j \in lo..(k - 1) : m[j] < p
    /\ (\A j \in lo..hi : m[j] = 0) => (p = 0 /\ k = lo)

\* C19: for every spectrum analysed, rms^2 x (i7 + 2) is the sum of mag[k]^2
\* over k = 1..i7+2, peak_3_5 is the maximum over bins i3..i5 and peak_5_7 the
\* maximum over bins i5..i7, the reported bin is the lowest one attaining the
\* maximum, and it is i3 (resp. i5) when the band is all 0.
C19_SpectralResult ==
    Analysed =>
        \A c \in 1..6 :
            LET r == Spectral(mag[c])
            IN  /\ r.sumsq = SumOver(1..(i7 + 2), mag[c])
                /\ C19_Peak(mag[c], i3, i5, r.p35, r.k35)
                /\ C19_Peak(mag[c], i5, i7, r.p57, r.k57)
C19_Witness ==
    /\ pc = "decide"
    /\ mag[2][0] > 0 /\ mag[2][i7 + 3] > 0
    /\ mag[2][i3] = mag[2][i5] /\ mag[2][i3] > 0
    /\ mag[2][i5] = mag[2][i7]
    /\ Spectral(mag[2]).k35 = i3 /\ Spectral(mag[2]).k57 = i5
    /\ Spectral(mag[2]).sumsq > 0

(***************************************************************************)
(* The LED feedback of both programs: SpecLeds runs either the two-LED     *)
(* program of main.cpp or the single-LED variant.                          *)
(***************************************************************************)
InitLeds == (\E sw \in 1..MaxStableWindows : InitWith(sw)) \/ InitOne

NextLeds ==
    \/ isr
    \/ \E f \in RestFrames : CalTick(f[1], f[2])
    \/ CalSleep
    \/ CalFinish
    \/ WindowStart(MaxSampledWindows)
    \/ \E f \in MoveFrames : AcqTick(f[1], f[2])
    \/ ZeroPad
    \/ \E ms \in LedScenes : Analyze(ms, TRUE)
    \/ Decide
    \/ Start_1(MaxSampledWindows)
    \/ AccFail_1
    \/ \E f \in MoveFrames : GyrFail_1(f[1])
    \/ \E f \in MoveFrames : Tick_1(f[1], f[2])
    \/ ZeroPad_1
    \/ \E ms \in Scenes_1 : Analyze_1(ms)
    \/ Feedback_1
    \/ Blink_1

SpecLeds == InitLeds /\ [][NextLeds]_vars

\* C15: after the feedback step of a window in which neither condition is
\* reported active every PWM output is 0: led_tremor and led_dyskinesia, with
\* led_status = 0, in the two-LED program; led in the single-LED variant.
C15_IdleDutyZero ==
    /\ (pc = "win_start" /\ Len(hist) > 0 /\ ~show_tremor /\ ~show_dyskinesia)
           => (led_tremor = 0 /\ led_dyskinesia = 0 /\ led_status = 0)
    /\ (pc = "start1" /\ Len(hist) > 0 /\ LastWindow.w = "-") => led = 0
C15_Witness ==
    /\ pc = "start1" /\ Len(hist) = 2
    /\ hist[1].w = "T" /\ hist[1].l > 0 /\ LastWindow.w = "-"
    /\ led = 0 /\ duty = 0 /\ freq = 0

\* i is a nearest integer of num / den
C20_Nearest(i, num, den) == -den <= 2 * (i * den - num) /\ 2 * (i * den - num) <= den
\* the bins read by the RMS loop and the two peak loops
C20_BinsRead(b3, b5, b7) == (1..(b7 + 2)) \cup (b3..b5) \cup (b5..b7)
C20_BinsOk(b3, b5, b7, fftn, fs) ==
    /\ C20_Nearest(b3, 3 * fftn, fs)
    /\ C20_Nearest(b5, 5 * fftn, fs)
    /\ C20_Nearest(b7, 7 * fftn, fs)
    /\ 1 <= b3 /\ b3 < b5 /\ b5 < b7
    /\ b7 + 2 < fftn \div 2

\* C20: the bin indices are the nearest integers of f x FFTN / Fs for f = 3, 5,
\* 7 (7, 12, 17 for FFTN = 256; 15, 25, 34 for FFTN = 512), 1 <= i3 < i5 < i7,
\* i7 + 2 < FFTN / 2, and every bin read by the RMS and peak loops lies inside
\* the magnitude array.
C20_Bins ==
    /\ i3 = 7 /\ i5 = 12 /\ i7 = 17
    /\ i3_1 = 15 /\ i5_1 = 25 /\ i7_1 = 34
    /\ C20_BinsOk(i3, i5, i7, FFTN, Fs)
    /\ C20_BinsOk(i3_1, i5_1, i7_1, FFTN_1, Fs_1)
    /\ pc \in {"analyze", "decide"} =>
          \A c \in 1..6 : /\ DOMAIN mag[c] = 0..(FFTN \div 2 - 1)
                          /\ C20_BinsRead(i3, i5, i7) \subseteq DOMAIN mag[c]
    /\ pc \in {"analyze1", "feedback1"} =>
          \A c \in 1..6 : /\ DOMAIN mag[c] = 0..(FFTN_1 \div 2 - 1)
                          /\ C20_BinsRead(i3_1, i5_1, i7_1) \subseteq DOMAIN mag[c]
C20_Witness ==
    /\ pc = "feedback1" /\ trem /\ dysk
    /\ mag[2][i5_1] > 0
    /\ Spectral_1(mag[2]).k35 = i5_1 /\ Spectral_1(mag[2]).k57 = i5_1

\* windows: every stability-window count, a sensor that never fails, all spectra
InitWin == \E sw \in 1..MaxStableWindows : InitWith(sw)

NextWin ==
    \/ isr
    \/ \E f \in RestFrames : CalTick(f[1], f[2])
    \/ CalSleep
    \/ CalFinish
    \/ WindowStart(MaxWindows)
    \/ \E f \in MoveFrames : AcqTick(f[1], f[2])
    \/ ZeroPad
    \/ \E ms \in Scenes, used \in BOOLEAN : Analyze(ms, used)
    \/ Decide

SpecWin == InitWin /\ [][NextWin]_vars

(***************************************************************************)
(* Claims about the feedback step, checked under SpecWin.                  *)
(***************************************************************************)
\* C21: after the feedback step, an active dyskinesia has the dyskinesia LED at
\* period 200 ms with duty levelD of the window just decided and the tremor LED
\* at 0; an active tremor has the tremor LED at period 500 ms with duty levelT
\* of that window and the dyskinesia LED at 0; the dyskinesia period is the
\* shorter one; the duty of an active condition is > 0.
C21_FeedbackMapping ==
    /\ PERIOD_DYSK_MS = 200 /\ PERIOD_TREM_MS = 500
    /\ PERIOD_DYSK_MS < PERIOD_TREM_MS
    /\ (pc = "win_start" /\ Len(hist) > 0) =>
          /\ show_dyskinesia =>
                /\ led_dyskinesia_period = 200
                /\ led_dyskinesia = levelD /\ led_dyskinesia = LastWindow.l
                /\ LastWindow.w = "D"
                /\ led_dyskinesia > 0 /\ led_dyskinesia <= LEVEL_ONE
                /\ led_tremor = 0
          /\ show_tremor =>
                /\ led_tremor_period = 500
                /\ led_tremor = levelT /\ led_tremor = LastWindow.l
                /\ LastWindow.w = "T"
                /\ led_tremor > 0 /\ led_tremor <= LEVEL_ONE
                /\ led_dyskinesia = 0
C21_Witness ==
    /\ pc = "win_start" /\ Len(hist) = 2
    /\ hist[1].w = "T" /\ hist[2].w = "D"
    /\ show_dyskinesia /\ trem /\ dysk
    /\ led_dyskinesia_period = 200 /\ led_tremor_period = 500
    /\ led_dyskinesia > 0 /\ led_dyskinesia < LEVEL_ONE /\ led_tremor = 0

(***************************************************************************)
(* Progress: read failures in acquisition at any tick, any number of times. *)
(* The ticker keeps firing (weak fairness of isr), a pair of reads         *)
(* succeeds again and again (strong fairness of CalTick and AcqTick), and  *)
(* main keeps running (weak fairness of its other steps).  The stability   *)
(* counters grow with every window, so the runs are cut after              *)
(* MaxLiveWindows windows.                                                 *)
(***************************************************************************)
\* the windows of a run of SpecLive
MaxLiveWindows == 2

\* mutant: a failed read switches the indication off
AcqReadFail_Off ==
    /\ pc = "acquire"
    /\ Consume
    /\ fails' = Min(fails + 1, MaxFails)
    /\ win_fails' = Min(win_fails + 1, MaxFails)
    /\ led_tremor' = 0 /\ led_dyskinesia' = 0 /\ led_status' = 0
    /\ UNCHANGED <<pc, STABLE_WINDOWS, cal_i, idx, windowCount, cal, bufs, ana,
                   dec, led_tremor_period, led_dyskinesia_period, led_power,
                   raised, calhist, wlog, win_seen, hist, boot, one>>

\* if (rN(OUT_XL_L, data) != 0) continue;  or
\* if (rN(OUT_G_L, data) != 0) continue;   -- neither stores anything
AcqReadFail ==
    /\ pc = "acquire"
    /\ Consume
    /\ fails' = Min(fails + 1, MaxFails)
    /\ win_fails' = Min(win_fails + 1, MaxFails)
    /\ UNCHANGED <<pc, STABLE_WINDOWS, cal_i, idx, windowCount, cal, bufs, ana,
                   dec, leds, raised, calhist, wlog, win_seen, hist, boot, one>>

CalTickAny == \E f \in RestFrames : CalTick(f[1], f[2])
AcqTickAny == \E f \in MoveFrames : AcqTick(f[1], f[2])
AnalyzeAny == \E ms \in FewScenes : Analyze(ms, TRUE)

\* the step of main that ends the analysis: the transforms and the six calls of
\* analyze return, whatever they computed
AnalyzeReturns ==
    /\ pc = "analyze"
    /\ mag' \in FewScenes /\ FftOk(mag')
    /\ trem' \in BOOLEAN /\ dysk' \in BOOLEAN
    /\ levelT' \in 0..LEVEL_ONE /\ levelD' \in 0..LEVEL_ONE
    /\ ax' \in {ax, Scratch(ax, TRUE)} /\ ay' \in {ay, Scratch(ay, TRUE)}
    /\ az' \in {az, Scratch(az, TRUE)} /\ gx' \in {gx, Scratch(gx, TRUE)}
    /\ gy' \in {gy, Scratch(gy, TRUE)} /\ gz' \in {gz, Scratch(gz, TRUE)}
    /\ pc' = "decide"
    /\ UNCHANGED <<tick_flag, STABLE_WINDOWS, cal_i, idx, windowCount, cal, dec,
                   leds, ticks, calhist, winhist, hist, boot, one>>

NextLive ==
    \/ isr
    \/ CalAccFail
    \/ \E f \in RestFrames : CalGyrFail(f[1])
    \/ CalTickAny
    \/ CalSleep
    \/ CalFinish
    \/ WindowStart(MaxLiveWindows)
    \/ AcqReadFail
    \/ AcqTickAny
    \/ ZeroPad
    \/ AnalyzeAny
    \/ Decide

SpecLive ==
    /\ Init /\ [][NextLive]_vars
    /\ WF_vars(isr)
    /\ SF_vars(CalTickAny) /\ SF_vars(AcqTickAny)
    /\ WF_vars(CalSleep) /\ WF_vars(CalFinish) /\ WF_vars(WindowStart(MaxLiveWindows))
    /\ WF_vars(ZeroPad) /\ WF_vars(AnalyzeReturns) /\ WF_vars(Decide)

\* C22: if the ticker keeps firing and pairs of reads keep succeeding, the
\* calibration completes, every window that is started reaches its decision and
\* LED update, and window after window is decided: the pipeline stops nowhere
\* before the last window of the run is decided.
C22_Progress ==
    /\ <>is_calibrated
    /\ \A w \in 1..MaxLiveWindows :
          (pc = "acquire" /\ windowCount = w) ~>
              (pc = "win_start" /\ windowCount = w /\ Len(hist) = w)
    /\ \A w \in 1..MaxLiveWindows : <>(pc = "decide" /\ windowCount = w)
    /\ <>[](pc = "win_start" /\ Len(hist) = MaxLiveWindows)
C22_Witness ==
    /\ pc = "win_start" /\ is_calibrated
    /\ windowCount = MaxLiveWindows /\ Len(hist) = MaxLiveWindows
    /\ win_fails = MaxFails /\ fails = MaxFails

(***************************************************************************)
(* Claims about the feedback phase of the single-LED variant, checked      *)
(* under SpecLeds.                                                         *)
(***************************************************************************)
\* the feedback ticks done so far in the phase
C23_Ticks == idx
\* C23: in the feedback phase of the single-LED variant, half_period is computed
\* with freq 5 (dyskinesia) or 2 (tremor), never 0, and the LED is written with
\* the duty during half_period ticks and with 0 during the next half_period
\* ticks, alternately: the tick number t (from 0) writes the duty when
\* t / half_period is even and 0 when it is odd.
C23_Blinks ==
    pc = "blink1" =>
        /\ freq \in {FREQ_TREM_1, FREQ_DYSK_1}
        /\ freq = (IF LastWindow.w = "D" THEN FREQ_DYSK_1 ELSE FREQ_TREM_1)
        /\ C23_Ticks >= 1 =>
              led = IF ((C23_Ticks - 1) \div half_period) % 2 = 0 THEN duty ELSE 0
\* what the loop does: cnt returns to 0 when it reaches half_period, so every
\* feedback tick writes the duty
C23_AlwaysLit ==
    pc = "blink1" =>
        /\ freq \in {FREQ_TREM_1, FREQ_DYSK_1}
        /\ freq = (IF LastWindow.w = "D" THEN FREQ_DYSK_1 ELSE FREQ_TREM_1)
        /\ cnt < half_period
        /\ C23_Ticks >= 1 => led = duty /\ led > 0
C23_LitPastHalf ==
    /\ pc = "blink1" /\ freq = FREQ_DYSK_1 /\ C23_Ticks = half_period + 1
    /\ led = duty /\ led > 0

(***************************************************************************)
(* Claims about the counters and the LED outputs of the two-LED program.   *)
(***************************************************************************)
\* a step of the decision and feedback at the end of a window
C24_DecisionStep == pc = "decide" /\ pc' = "win_start"
C24_StepOf(n, m) == m = n + 1 \/ m = 0

C24_CountersStep ==
    /\ (stable_tremor' # stable_tremor \/ stable_dyskinesia' # stable_dyskinesia) =>
           C24_DecisionStep
    /\ C24_DecisionStep =>
           /\ C24_StepOf(stable_tremor, stable_tremor')
           /\ C24_StepOf(stable_dyskinesia, stable_dyskinesia')
\* C24: stable_tremor >= 0, stable_dyskinesia >= 0 and at most one of them is
\* nonzero in every reachable state; a counter changes only in the decision step
\* of a window, where it is incremented by exactly 1 or set to 0.
C24_Counters ==
    /\ [](/\ stable_tremor >= 0 /\ stable_dyskinesia >= 0
          /\ stable_tremor = 0 \/ stable_dyskinesia = 0)
    /\ [][C24_CountersStep]_vars
C24_Witness ==
    /\ pc = "win_start" /\ Len(hist) = 3
    /\ hist[1].w = "D" /\ hist[2].w = "T" /\ hist[3].w = "T"
    /\ stable_tremor = 2 /\ stable_dyskinesia = 0

\* the PWM LEDs with a nonzero duty
C25_Lit == { l \in {"tremor", "dyskinesia"} :
               IF l = "tremor" THEN led_tremor # 0 ELSE led_dyskinesia # 0 }

\* C25: in every reachable state at most one of led_tremor and led_dyskinesia
\* has a nonzero duty and led_power is 0; after the feedback step of a window
\* led_status = 1 exactly when one of the two PWM LEDs has a nonzero duty.
C25_LedExclusion ==
    /\ Cardinality(C25_Lit) <= 1
    /\ led_power = 0
    /\ led_status \in {0, 1}
    /\ (pc = "win_start" /\ Len(hist) > 0) =>
          (led_status = 1) = (Cardinality(C25_Lit) = 1)
C25_Witness ==
    /\ pc = "win_start" /\ STABLE_WINDOWS = 1 /\ Len(hist) = 2
    /\ hist[1].w = "T" /\ hist[2].w = "D" /\ ~trem
    /\ led_tremor_period = PERIOD_TREM_MS
    /\ C25_Lit = {"dyskinesia"} /\ led_status = 1 /\ led_power = 0

\* the LED outputs and the two stability counters
C26_Indication == <<leds, stable_tremor, stable_dyskinesia>>
C26_HeldStep ==
    /\ pc = "acquire" => UNCHANGED C26_Indication
    /\ C26_Indication' # C26_Indication => C24_DecisionStep

\* C26: the LED outputs and the stability counters change only in the decision
\* and feedback step at the end of a window: every step of the acquisition (a
\* wait for a tick, a successful read, a failed read) leaves them unchanged, so
\* the indication of the previous window is held as long as reads keep failing.
C26_IndicationHeld == [][C26_HeldStep]_vars
C26_Witness ==
    /\ pc = "acquire" /\ windowCount = 2 /\ idx = 0
    /\ win_fails = MaxFails /\ fails = MaxFails /\ consumed = MaxTicks
    /\ show_tremor /\ led_tremor > 0 /\ led_status = 1 /\ stable_tremor = 1
====
